---- MODULE Spec2Model ----
(***************************************************************************)
(* Model of the analytics data API presentation layer:                     *)
(*   - analytics_data_api/v0/apps.py: ApiAppConfig.ready (the search-index *)
(*     connection bootstrap) and load_fully_qualified_definition;          *)
(*   - analytics_data_api/v0/serializers.py: the record serializers, the   *)
(*     engagement range shaper and the search pagination adapter.          *)
(*                                                                         *)
(* Python strings whose characters the code inspects are sequences of      *)
(* one-character strings.  Python values that the bootstrap tests with     *)
(* "is not None" or for truthiness are records tagged with their type.     *)
(***************************************************************************)
EXTENDS Integers, Sequences, FiniteSets, TLC

VARIABLES
    settings,       \* django.conf.settings: the five search-index settings
    connections,    \* elasticsearch_dsl connections registry: alias -> kwargs
    created,        \* number of create_connection calls made by this process
    ready_calls,    \* number of ApiAppConfig.ready() invocations so far
    raised,         \* exception that escaped the last ready(), or "none"
    obj,            \* the object a view hands to a serializer: [kind, value]
    data,           \* what the last serializer call returned: [serializer, fields]
    calls           \* number of serializer calls made on obj

bootVars == <<settings, connections, created, ready_calls, raised>>

requestVars == <<obj, data, calls>>

vars == <<settings, connections, created, ready_calls, raised, obj, data, calls>>

----------------------------------------------------------------------------
(* Bounds *)

\* longest transport-class reference enumerated
MaxRefLen == 3
\* most ready() invocations in one process
MaxReadyCalls == 3

----------------------------------------------------------------------------
(* Python values *)

PyNone == [type |-> "NoneType"]
PyStr(s) == [type |-> "str", val |-> s]
PyList(l) == [type |-> "list", val |-> l]
PyClass(module_name, class_name) == [type |-> "classobj", module |-> module_name, name |-> class_name]

\* `x is not None`
IsNotNone(v) == v.type # "NoneType"

\* Python truthiness, as used by `if settings.X:`
Truthy(v) ==
    /\ v.type # "NoneType"
    /\ (v.type \in {"str", "list"} => v.val # <<>>)

\* Python `a or b`
py_or(a, b) == IF Truthy(a) THEN a ELSE b

\* all strings of length at most n over the alphabet
StringsUpTo(alphabet, n) == UNION {[1..k -> alphabet] : k \in 0..n}

----------------------------------------------------------------------------
(* The interpreter's importable modules: module name -> attribute -> value. *)
(* One module "m" holding a transport class "C" and an attribute "N" that   *)
(* is None.                                                                 *)

RefAlphabet == {"m", "C", "N", "."}

Modules ==
    (<<"m">> :> (<<"C">> :> PyClass(<<"m">>, <<"C">>) @@ <<"N">> :> PyNone))

\* str.rsplit(sep, 1): split once at the last occurrence of sep
rsplit(s, sep) ==
    LET hits == {i \in 1..Len(s) : s[i] = sep}
    IN  IF hits = {} THEN <<s>>
        ELSE LET i == CHOOSE j \in hits : \A k \in hits : k <= j
             IN  <<SubSeq(s, 1, i - 1), SubSeq(s, i + 1, Len(s))>>

\* importlib.import_module(name): the module, or the exception it raises
import_module(name) ==
    IF name = <<>> THEN [raised |-> "ValueError"]
    ELSE IF name \notin DOMAIN Modules THEN [raised |-> "ImportError"]
    ELSE [raised |-> "none", value |-> Modules[name]]

\* getattr(module, class_name) without a default
getattr(module, class_name) ==
    IF class_name \notin DOMAIN module THEN [raised |-> "AttributeError"]
    ELSE [raised |-> "none", value |-> module[class_name]]

\* mutant: lookup failures are swallowed and None is returned
load_fully_qualified_definition_lenient(definition) ==
    LET parts == rsplit(definition, ".")
    IN  IF Len(parts) # 2 THEN [raised |-> "none", value |-> PyNone]
        ELSE IF parts[1] \notin DOMAIN Modules THEN [raised |-> "none", value |-> PyNone]
        ELSE IF parts[2] \notin DOMAIN Modules[parts[1]] THEN [raised |-> "none", value |-> PyNone]
        ELSE [raised |-> "none", value |-> Modules[parts[1]][parts[2]]]

\* load_fully_qualified_definition(definition): the resolved object, or the
\* exception raised by the tuple unpacking, the import or the getattr
load_fully_qualified_definition(definition) ==
    LET parts == rsplit(definition, ".")
    IN  IF Len(parts) # 2 THEN [raised |-> "ValueError"]
        ELSE LET module == import_module(parts[1])
             IN  IF module.raised # "none" THEN module
                 ELSE getattr(module.value, parts[2])

----------------------------------------------------------------------------
(* ApiAppConfig.ready *)

\* the dict comprehension of line 27
StripNone(params) ==
    [key \in {k \in DOMAIN params : IsNotNone(params[k])} |-> params[key]]

\* mutant: nothing is stripped
connection_params_unstripped(s, connection_class) ==
    LET base == ("hosts" :> PyList(<<s.ELASTICSEARCH_LEARNERS_HOST.val>>))
        with_class == IF Truthy(s.ELASTICSEARCH_CONNECTION_CLASS)
                      THEN base @@ ("connection_class" :> connection_class)
                      ELSE base
    IN  with_class
          @@ ("aws_access_key_id" :> s.ELASTICSEARCH_AWS_ACCESS_KEY_ID)
          @@ ("aws_secret_access_key" :> s.ELASTICSEARCH_AWS_SECRET_ACCESS_KEY)
          @@ ("region" :> s.ELASTICSEARCH_CONNECTION_DEFAULT_REGION)

\* lines 16-27: the kwargs handed to create_connection, given the resolved
\* transport class (unused when the setting is falsy)
connection_params(s, connection_class) ==
    LET base == ("hosts" :> PyList(<<s.ELASTICSEARCH_LEARNERS_HOST.val>>))
        with_class == IF Truthy(s.ELASTICSEARCH_CONNECTION_CLASS)
                      THEN base @@ ("connection_class" :> connection_class)
                      ELSE base
    IN  StripNone(with_class
          @@ ("aws_access_key_id" :> s.ELASTICSEARCH_AWS_ACCESS_KEY_ID)
          @@ ("aws_secret_access_key" :> s.ELASTICSEARCH_AWS_SECRET_ACCESS_KEY)
          @@ ("region" :> s.ELASTICSEARCH_CONNECTION_DEFAULT_REGION))

\* connections.create_connection(**kwargs): registers under the alias "default"
create_connection(conns, kwargs) == ("default" :> kwargs) @@ conns

\* one invocation of ApiAppConfig.ready()
Ready ==
    /\ ready_calls < MaxReadyCalls
    /\ raised = "none"
    /\ ready_calls' = ready_calls + 1
    /\ IF Truthy(settings.ELASTICSEARCH_LEARNERS_HOST)
       THEN LET loaded == IF Truthy(settings.ELASTICSEARCH_CONNECTION_CLASS)
                          THEN load_fully_qualified_definition(settings.ELASTICSEARCH_CONNECTION_CLASS.val)
                          ELSE [raised |-> "none", value |-> PyNone]
            IN  IF loaded.raised # "none"
                THEN /\ raised' = loaded.raised
                     /\ UNCHANGED <<connections, created>>
                ELSE /\ connections' = create_connection(connections, connection_params(settings, loaded.value))
                     /\ created' = created + 1
                     /\ raised' = "none"
       ELSE UNCHANGED <<connections, created, raised>>
    /\ UNCHANGED <<settings, requestVars>>

HostSettings == {PyNone, PyStr(<<>>), PyStr(<<"h">>)}
ClassSettings == {PyNone} \cup {PyStr(s) : s \in StringsUpTo(RefAlphabet, MaxRefLen)}
AccessKeySettings == {PyNone, PyStr(<<>>), PyStr(<<"k">>)}
SecretKeySettings == {PyNone, PyStr(<<"s">>)}
RegionSettings == {PyNone, PyStr(<<"r">>)}

InitBootstrap ==
    /\ settings \in [ELASTICSEARCH_LEARNERS_HOST : HostSettings,
                     ELASTICSEARCH_CONNECTION_CLASS : ClassSettings,
                     ELASTICSEARCH_AWS_ACCESS_KEY_ID : AccessKeySettings,
                     ELASTICSEARCH_AWS_SECRET_ACCESS_KEY : SecretKeySettings,
                     ELASTICSEARCH_CONNECTION_DEFAULT_REGION : RegionSettings]
    /\ connections = <<>>
    /\ created = 0
    /\ ready_calls = 0
    /\ raised = "none"
    /\ obj = [kind |-> "none"]
    /\ data = [serializer |-> "none"]
    /\ calls = 0

NextBootstrap == Ready

SpecBootstrap == InitBootstrap /\ [][NextBootstrap]_vars

----------------------------------------------------------------------------
(* Claims about the connection bootstrap (checked under SpecBootstrap) *)

\* C2: over any sequence of ready() invocations the default connection is
\* created at most once per process.
C2_CreatedAtMostOnce == created <= 1

\* a reference names an attribute of an importable module
WellFormedReference(s) ==
    \E mn \in DOMAIN Modules : \E a \in DOMAIN Modules[mn] : s = mn \o <<".">> \o a

\* a reference names an attribute, other than None, of an importable module
ResolvesToObject(s) ==
    \E mn \in DOMAIN Modules : \E a \in DOMAIN Modules[mn] :
        s = mn \o <<".">> \o a /\ IsNotNone(Modules[mn][a])

AwsSettingOf(s) ==
    ("aws_access_key_id" :> s.ELASTICSEARCH_AWS_ACCESS_KEY_ID)
      @@ ("aws_secret_access_key" :> s.ELASTICSEARCH_AWS_SECRET_ACCESS_KEY)
      @@ ("region" :> s.ELASTICSEARCH_CONNECTION_DEFAULT_REGION)

\* what C3 says of every key but connection_class
C3_Common(p) ==
    /\ DOMAIN p \subseteq {"hosts", "connection_class", "aws_access_key_id",
                           "aws_secret_access_key", "region"}
    /\ \A key \in DOMAIN p : IsNotNone(p[key])
    /\ "hosts" \in DOMAIN p
    /\ p["hosts"] = PyList(<<settings.ELASTICSEARCH_LEARNERS_HOST.val>>)
    /\ \A key \in DOMAIN AwsSettingOf(settings) :
          /\ key \in DOMAIN p <=> IsNotNone(AwsSettingOf(settings)[key])
          /\ key \in DOMAIN p => p[key] = AwsSettingOf(settings)[key]

\* C3 (as claimed): whenever ready() created a connection, the kwargs hold no
\* None value, hold hosts = [host], and hold each optional key exactly when
\* its setting is not None.
C3_OptionalKeyIffNotNone ==
    created > 0 =>
        LET p == connections["default"]
        IN  /\ C3_Common(p)
            /\ "connection_class" \in DOMAIN p
                  <=> IsNotNone(settings.ELASTICSEARCH_CONNECTION_CLASS)

\* C3 (amended): as claimed for hosts, the AWS keys and the region; the
\* connection_class key is present exactly when its setting is truthy
\* (neither None nor the empty string) and resolves to an object other than
\* None, and then holds the resolved object.
C3_ConnectionParams ==
    created > 0 =>
        LET p == connections["default"]
            cls == settings.ELASTICSEARCH_CONNECTION_CLASS
        IN  /\ C3_Common(p)
            /\ "connection_class" \in DOMAIN p
                  <=> (Truthy(cls) /\ ResolvesToObject(cls.val))
            /\ "connection_class" \in DOMAIN p
                  => \E mn \in DOMAIN Modules : \E a \in DOMAIN Modules[mn] :
                        /\ cls.val = mn \o <<".">> \o a
                        /\ p["connection_class"] = Modules[mn][a]

\* C3 witness: a connection created from a partial configuration (empty
\* transport class and access key, secret key set, region unset)
C3_Witness ==
    /\ created > 0
    /\ settings.ELASTICSEARCH_CONNECTION_CLASS = PyStr(<<>>)
    /\ settings.ELASTICSEARCH_AWS_ACCESS_KEY_ID = PyStr(<<>>)
    /\ settings.ELASTICSEARCH_AWS_SECRET_ACCESS_KEY = PyStr(<<"s">>)
    /\ settings.ELASTICSEARCH_CONNECTION_DEFAULT_REGION = PyNone

LookupExceptions == {"ValueError", "ImportError", "AttributeError"}

----------------------------------------------------------------------------
(* Record serializers (serializers.py).  A dict or row is a function from   *)
(* key to value; a numeric value is a natural number or Null.  Every        *)
(* serializer call returns the output it built and the object it was given  *)
(* as the call leaves it: [fields |-> ..., value |-> ...].                  *)

\* Python None / JSON null in a numeric position
Null == -1

\* largest count enumerated in an input row
MaxCount == 1
\* most serializer calls made on one input object
MaxCalls == 2

CountValues == {Null} \cup (0..MaxCount)

\* every dict whose keys are among `keys` and whose values are in `values`
DictsOver(keys, values) == UNION {[present -> values] : present \in SUBSET keys}

\* dict.get(key, default): the default only when the key is absent
dict_get(d, key, default) == IF key \in DOMAIN d THEN d[key] ELSE default

\* getattr(obj, name, default): the default only when the attribute is absent
getattr_default(o, name, default) == IF name \in DOMAIN o THEN o[name] ELSE default

\* DefaultIfNoneMixin.default_if_none
default_if_none(value, default) == IF value # Null THEN value ELSE default

\* ---- CourseActivityByWeekSerializer -------------------------------------

UpperChars == <<"A", "C", "T", "I", "V", "E", "N", "Y", "P", "L">>
LowerChars == <<"a", "c", "t", "i", "v", "e", "n", "y", "p", "l">>

\* str.lower() on one character: upper-case letters change, all else is kept
LowerChar(c) ==
    IF \E i \in 1..Len(UpperChars) : UpperChars[i] = c
    THEN LowerChars[CHOOSE i \in 1..Len(UpperChars) : UpperChars[i] = c]
    ELSE c

UpperChar(c) ==
    IF \E i \in 1..Len(LowerChars) : LowerChars[i] = c
    THEN UpperChars[CHOOSE i \in 1..Len(LowerChars) : LowerChars[i] = c]
    ELSE c

\* str.lower()
lower(s) == [i \in 1..Len(s) |-> LowerChar(s[i])]

StrActive == <<"a", "c", "t", "i", "v", "e">>
StrAny == <<"a", "n", "y">>

\* mutant: the comparison is made before lower-casing
get_activity_type_case_sensitive(o) ==
    IF o.activity_type = StrActive THEN StrAny ELSE lower(o.activity_type)

\* CourseActivityByWeekSerializer.get_activity_type
get_activity_type(o) ==
    LET activity_type == lower(o.activity_type)
    IN  IF activity_type = StrActive THEN StrAny ELSE activity_type

CourseActivityByWeekSerializer(o) ==
    [fields |-> [activity_type |-> get_activity_type(o)], value |-> o]

\* ---- CourseEnrollmentModeDailySerializer --------------------------------

\* analytics_data_api.constants.enrollment_modes, in the order of line 14
ENROLLMENT_MODES == <<"audit", "credit", "honor", "professional", "verified">>

get_audit(o) == dict_get(o, "audit", 0)
get_honor(o) == dict_get(o, "honor", 0)

\* mutant: a getter copied from its neighbour without renaming the key
get_credit_copied(o) == dict_get(o, "honor", 0)

get_credit(o) == dict_get(o, "credit", 0)
get_professional(o) == dict_get(o, "professional", 0)
get_verified(o) == dict_get(o, "verified", 0)

\* SerializerMethodField: the field named f is computed by get_<f>
ModeMethodField(f, o) ==
    CASE f = "audit" -> get_audit(o)
      [] f = "credit" -> get_credit(o)
      [] f = "honor" -> get_honor(o)
      [] f = "professional" -> get_professional(o)
      [] f = "verified" -> get_verified(o)

\* the mode fields of Meta.fields (the other five are model pass-throughs)
CourseEnrollmentModeDailySerializer(o) ==
    [fields |-> [f \in {ENROLLMENT_MODES[i] : i \in 1..Len(ENROLLMENT_MODES)}
                    |-> ModeMethodField(f, o)],
     value |-> o]

\* ---- EngagementDaySerializer --------------------------------------------

get_problems_attempted(o) == dict_get(o, "problems_attempted", 0)
get_problems_completed(o) == dict_get(o, "problems_completed", 0)
get_discussion_contributions(o) == dict_get(o, "discussion_contributions", 0)
get_videos_viewed(o) == dict_get(o, "videos_viewed", 0)

EngagementDayFields ==
    {"problems_attempted", "problems_completed", "discussion_contributions", "videos_viewed"}

EngagementDaySerializer(o) ==
    [fields |-> [problems_attempted |-> get_problems_attempted(o),
                 problems_completed |-> get_problems_completed(o),
                 discussion_contributions |-> get_discussion_contributions(o),
                 videos_viewed |-> get_videos_viewed(o)],
     value |-> o]

\* ---- LearnerSerializer --------------------------------------------------

default_if_none_fields ==
    <<"discussion_contributions", "problems_attempted", "problems_completed", "videos_viewed">>

\* LearnerSerializer.get_engagements
get_engagements(o) ==
    [field \in {default_if_none_fields[i] : i \in 1..Len(default_if_none_fields)}
        |-> default_if_none(getattr_default(o, field, Null), 0)]
    @@ ("problem_attempts_per_completed"
            :> getattr_default(o, "problem_attempts_per_completed", Null))

\* LearnerSerializer.transform_segments
transform_segments(o, value) == py_or(value, PyList(<<>>))

\* mutant: the cohort is passed through as it is
transform_cohort_identity(o, value) == value

\* LearnerSerializer.transform_cohort
transform_cohort(o, value) == py_or(value, PyNone)

\* the per-field hook of the serializer: the value read for the field named
\* `name` is passed through transform_<name> before it is output
LearnerTransformed(o, name) ==
    CASE name = "segments" -> transform_segments(o, o[name])
      [] name = "cohort" -> transform_cohort(o, o[name])

\* mutant: the engagement totals are also stored on the learner record
LearnerSerializer_storing(o) ==
    [fields |-> [engagements |-> get_engagements(o),
                 segments |-> LearnerTransformed(o, "segments"),
                 cohort |-> LearnerTransformed(o, "cohort")],
     value |-> get_engagements(o) @@ o]

\* the engagements, segments and cohort fields (the other six are read as
\* they are)
LearnerSerializer(o) ==
    [fields |-> [engagements |-> get_engagements(o),
                 segments |-> LearnerTransformed(o, "segments"),
                 cohort |-> LearnerTransformed(o, "cohort")],
     value |-> o]

\* ---- fields declared IntegerField(default=0) ----------------------------

\* serializers.IntegerField(default=0) on output, as section 4.2 of the
\* specification describes it: 0 for an absent or null source value
IntegerField_default(o, name, default) ==
    IF name \in DOMAIN o /\ o[name] # Null THEN o[name] ELSE default

ProblemFields == {"total_submissions", "correct_submissions"}

\* ProblemSerializer and ProblemsAndTagsSerializer declare the same two counts
ProblemSerializer(o) ==
    [fields |-> [total_submissions |-> IntegerField_default(o, "total_submissions", 0),
                 correct_submissions |-> IntegerField_default(o, "correct_submissions", 0)],
     value |-> o]

GenderFields == {"female", "male", "other", "unknown"}

CourseEnrollmentByGenderSerializer(o) ==
    [fields |-> [female |-> IntegerField_default(o, "female", 0),
                 male |-> IntegerField_default(o, "male", 0),
                 other |-> IntegerField_default(o, "other", 0),
                 unknown |-> IntegerField_default(o, "unknown", 0)],
     value |-> o]

----------------------------------------------------------------------------
(* Inputs a view can hand over *)

\* every spelling of a word in upper and lower case
CaseVariants(w) ==
    {[i \in 1..Len(w) |-> IF i \in upper THEN UpperChar(w[i]) ELSE w[i]] :
        upper \in SUBSET (1..Len(w))}

ActivityTypes ==
    CaseVariants(StrActive) \cup CaseVariants(StrAny)
      \cup CaseVariants(<<"a", "c", "t", "i", "v">>)
      \cup CaseVariants(<<"p", "l", "a", "y">>)
      \cup CaseVariants(<<"a", "_", "v">>)

ActivityInputs == {[kind |-> "CourseActivityWeekly", value |-> [activity_type |-> a]] : a \in ActivityTypes}

ModeInputs ==
    {[kind |-> "CourseEnrollmentModeDaily", value |-> d] :
        d \in DictsOver({ENROLLMENT_MODES[i] : i \in 1..Len(ENROLLMENT_MODES)}, CountValues)}

EngagementDayInputs ==
    {[kind |-> "EngagementDay", value |-> d] : d \in DictsOver(EngagementDayFields, CountValues)}

\* segments of a learner document: a list of segment names, or empty
SegmentsValues ==
    {PyNone, PyStr(<<>>), PyList(<<>>), PyList(<<"inactive">>),
     PyList(<<"highly_engaged", "struggling">>)}

\* cohort of a learner document: a name, the empty string or None
CohortValues == {PyNone, PyStr(<<>>), PyStr(<<"c">>), PyStr(<<"c", "2">>)}

LearnerProfiles == [segments : SegmentsValues, cohort : CohortValues]

\* learner documents: every profile without engagement counters, and every
\* combination of engagement counters on one profile
LearnerInputs ==
    {[kind |-> "Learner", value |-> d @@ [segments |-> PyList(<<"inactive">>), cohort |-> PyStr(<<"c">>)]] :
        d \in DictsOver({default_if_none_fields[i] : i \in 1..Len(default_if_none_fields)}
                          \cup {"problem_attempts_per_completed"}, CountValues)}
      \cup {[kind |-> "Learner", value |-> profile] : profile \in LearnerProfiles}

ProblemInputs ==
    {[kind |-> "Problem", value |-> d] : d \in DictsOver(ProblemFields, CountValues)}

GenderInputs ==
    {[kind |-> "CourseEnrollmentByGender", value |-> d] : d \in DictsOver(GenderFields, CountValues)}

----------------------------------------------------------------------------
(* Serializer calls *)

\* a view serializes obj with `serializer`, the serializer of obj's kind
Call(kind, name, result) ==
    /\ obj.kind = kind
    /\ calls < MaxCalls
    /\ calls' = calls + 1
    /\ data' = [serializer |-> name, fields |-> result.fields]
    /\ obj' = [obj EXCEPT !.value = result.value]
    /\ UNCHANGED bootVars

SerializeActivity ==
    /\ obj.kind = "CourseActivityWeekly"
    /\ Call("CourseActivityWeekly", "CourseActivityByWeekSerializer",
            CourseActivityByWeekSerializer(obj.value))

SerializeModes ==
    /\ obj.kind = "CourseEnrollmentModeDaily"
    /\ Call("CourseEnrollmentModeDaily", "CourseEnrollmentModeDailySerializer",
            CourseEnrollmentModeDailySerializer(obj.value))

SerializeEngagementDay ==
    /\ obj.kind = "EngagementDay"
    /\ Call("EngagementDay", "EngagementDaySerializer", EngagementDaySerializer(obj.value))

SerializeLearner ==
    /\ obj.kind = "Learner"
    /\ Call("Learner", "LearnerSerializer", LearnerSerializer(obj.value))

SerializeProblem ==
    /\ obj.kind = "Problem"
    /\ Call("Problem", "ProblemSerializer", ProblemSerializer(obj.value))

SerializeGender ==
    /\ obj.kind = "CourseEnrollmentByGender"
    /\ Call("CourseEnrollmentByGender", "CourseEnrollmentByGenderSerializer",
            CourseEnrollmentByGenderSerializer(obj.value))

----------------------------------------------------------------------------
(* Engagement range shaper *)

\* most rows in one metric-range query set
MaxRows == 3

\* analytics_data_api.constants.engagement_events.EVENTS
EVENTS == <<"problems_attempted", "problems_completed", "discussion_contributions", "videos_viewed">>

RangeTypes == {"low", "normal", "high"}

\* JSON null where a [low, high] pair is expected
NoRange == <<>>

\* JSON null where a formatted date is expected
NoDate == <<>>

\* settings.DATE_FORMAT applied to a date
FormatDate(d) == <<"DATE_FORMAT", d>>

\* QuerySet.filter(metric=..., range_type=...): the matching rows, in order
filter(query_set, metric, range_type) ==
    SelectSeq(query_set, LAMBDA row : row.metric = metric /\ row.range_type = range_type)

\* mutant: the last matching row is taken
last_or_none(query_set) ==
    IF Len(query_set) > 0 THEN <<query_set[Len(query_set)]>> ELSE <<>>

\* `query_set[0] if len(query_set) else None`: <<row>>, or <<>> for None
first_or_none(query_set) ==
    IF Len(query_set) > 0 THEN <<query_set[1]>> ELSE <<>>

\* EnagementRangeMetricSerializer._transform_range; a row (a model instance)
\* is truthy, None is not
_transform_range(metric_range) ==
    IF metric_range # <<>>
    THEN <<metric_range[1].low_value, metric_range[1].high_value>>
    ELSE NoRange

\* EnagementRangeMetricSerializer(...).data
EnagementRangeMetricSerializer(o) ==
    [below_average |-> _transform_range(o.low_range),
     average |-> _transform_range(o.normal_range),
     above_average |-> _transform_range(o.high_range)]

\* DateRangeSerializer(...).data
DateRangeSerializer(o) ==
    IF o # <<>>
    THEN [start |-> FormatDate(o[1].start_date), end |-> FormatDate(o[1].end_date)]
    ELSE [start |-> NoDate, end |-> NoDate]

\* the entry the loop body builds for one metric
metric_entry(query_set, metric) ==
    EnagementRangeMetricSerializer(
        [low_range |-> first_or_none(filter(query_set, metric, "low")),
         normal_range |-> first_or_none(filter(query_set, metric, "normal")),
         high_range |-> first_or_none(filter(query_set, metric, "high"))])

\* mutant: a metric without any row is left out of the output
get_engagement_ranges_omitting(o) ==
    LET query_set == o.engagement_ranges
    IN  ("date_range" :> DateRangeSerializer(first_or_none(query_set)))
          @@ [metric \in {EVENTS[i] : i \in 1..Len(EVENTS)}
                        \cap {query_set[i].metric : i \in 1..Len(query_set)}
                |-> metric_entry(query_set, metric)]

\* CourseLearnerMetadataSerializer.get_engagement_ranges
get_engagement_ranges(o) ==
    LET query_set == o.engagement_ranges
    IN  ("date_range" :> DateRangeSerializer(first_or_none(query_set)))
          @@ [metric \in {EVENTS[i] : i \in 1..Len(EVENTS)}
                |-> metric_entry(query_set, metric)]

CourseLearnerMetadataSerializer(o) ==
    [fields |-> [engagement_ranges |-> get_engagement_ranges(o)], value |-> o]

\* the bounds and dates a range row carries
RangeRowValues ==
    {[low_value |-> 0, high_value |-> 1, start_date |-> 1, end_date |-> 2],
     [low_value |-> 1, high_value |-> Null, start_date |-> 2, end_date |-> 3]}

\* rows exist for the first two metrics only
RangeRows ==
    {[metric |-> m, range_type |-> rt, low_value |-> v.low_value, high_value |-> v.high_value,
      start_date |-> v.start_date, end_date |-> v.end_date] :
        m \in {EVENTS[1], EVENTS[2]}, rt \in RangeTypes, v \in RangeRowValues}

RangeInputs ==
    {[kind |-> "CourseLearnerMetadata", value |-> [engagement_ranges |-> qs]] :
        qs \in UNION {[1..n -> RangeRows] : n \in 0..MaxRows}}

SerializeLearnerMetadata ==
    /\ obj.kind = "CourseLearnerMetadata"
    /\ Call("CourseLearnerMetadata", "CourseLearnerMetadataSerializer",
            CourseLearnerMetadataSerializer(obj.value))

----------------------------------------------------------------------------
(* Search pagination adapter *)

\* most documents matching a search
MaxDocs == 3
\* largest page size
MaxPerPage == 2

\* what the base adapter reports for a result set that has no length
CountError == Null

\* elasticsearch_dsl Search.execute(): the hits of the requested slice and
\* the number of matching documents; the response keeps its search
execute(search) ==
    [type |-> "Response",
     search |-> search,
     hits |-> SubSeq(search.matching, search.from + 1,
                     IF search.from + search.size < Len(search.matching)
                     THEN search.from + search.size ELSE Len(search.matching)),
     total |-> Len(search.matching)]

\* the base pagination adapter's initialisation, as section 4.4 of the
\* specification describes it: it inspects the page's result set for its
\* count; a lazy search object exposes none
EdxPaginationSerializer_init(page) ==
    [observed |-> page.object_list.type,
     trace |-> <<"base_init">>,
     fields |-> [count |-> IF page.object_list.type = "Response"
                           THEN page.object_list.total ELSE CountError,
                 num_pages |-> page.paginator.num_pages,
                 results |-> IF page.object_list.type = "Response"
                             THEN page.object_list.hits ELSE <<>>]]

\* mutant: the base adapter is initialised first, the query executed after
ElasticsearchDSLSearchSerializer_init_late(page) ==
    LET base == EdxPaginationSerializer_init(page)
        executed == [page EXCEPT !.object_list = execute(page.object_list)]
    IN  [value |-> executed,
         observed |-> base.observed,
         trace |-> base.trace \o <<"execute">>,
         fields |-> base.fields]

\* ElasticsearchDSLSearchSerializer.__init__(instance=page)
ElasticsearchDSLSearchSerializer_init(page) ==
    LET executed == [page EXCEPT !.object_list = execute(page.object_list)]
        base == EdxPaginationSerializer_init(executed)
    IN  [value |-> executed,
         observed |-> base.observed,
         trace |-> <<"execute">> \o base.trace,
         fields |-> base.fields]

\* django Paginator.num_pages for `count` objects, an empty first page allowed
NumPages(count, per_page) ==
    IF count = 0 THEN 1 ELSE (count + per_page - 1) \div per_page

\* the Page a view builds over a lazy search: Paginator(search, per_page).page(number)
PageOf(n, per_page, number) ==
    [kind |-> "Page",
     value |-> [number |-> number,
                paginator |-> [per_page |-> per_page, num_pages |-> NumPages(n, per_page)],
                object_list |-> [type |-> "Search",
                                 matching |-> [i \in 1..n |-> i],
                                 from |-> (number - 1) * per_page,
                                 size |-> per_page]]]

PageInputs ==
    {PageOf(t[1], t[2], t[3]) :
        t \in {u \in (0..MaxDocs) \X (1..MaxPerPage) \X (1..(MaxDocs + 1)) :
                  u[3] <= NumPages(u[1], u[2])}}

\* a view wraps a page of search results; the page's search has not been
\* executed (a second execute() is not a method of the response)
PaginateSearch ==
    /\ obj.kind = "Page"
    /\ obj.value.object_list.type = "Search"
    /\ calls < MaxCalls
    /\ calls' = calls + 1
    /\ LET result == ElasticsearchDSLSearchSerializer_init(obj.value)
       IN  /\ data' = [serializer |-> "ElasticsearchDSLSearchSerializer",
                       fields |-> result.fields,
                       observed |-> result.observed,
                       trace |-> result.trace]
           /\ obj' = [obj EXCEPT !.value = result.value]
    /\ UNCHANGED bootVars

----------------------------------------------------------------------------
(* restore_object of the consolidated answer distribution serializers: the *)
(* hook that builds an object from validated attributes                    *)

\* dict.pop(key, default): the value and the dict without the key
dict_pop(d, key, default) ==
    [value |-> dict_get(d, key, default),
     rest |-> [k \in DOMAIN d \ {key} |-> d[k]]]

\* ModelSerializer.restore_object(attrs, instance): the attributes are set on
\* the instance given, or on a new model object
ModelSerializer_restore_object(attrs, instance) ==
    IF instance # <<>> THEN attrs @@ instance[1] ELSE attrs

\* ConsolidatedAnswerDistributionSerializer.restore_object and
\* ConsolidatedFirstLastAnswerDistributionSerializer.restore_object;
\* o = [attrs, instance], instance being <<object>> or <<>> for None
restore_object(o) ==
    LET popped == dict_pop(o.attrs, "consolidated_variant", Null)
        distribution == ("consolidated_variant" :> popped.value)
                           @@ ModelSerializer_restore_object(popped.rest, o.instance)
    IN  [fields |-> distribution,
         value |-> [attrs |-> popped.rest,
                    instance |-> IF o.instance # <<>> THEN <<distribution>> ELSE <<>>]]

\* attrs and instance of an answer distribution; a Python bool is 0 or 1
RestoreInputs ==
    {[kind |-> "RestoreArgs", value |-> [attrs |-> attrs, instance |-> instance]] :
        attrs \in DictsOver({"count", "consolidated_variant"}, 0..MaxCount),
        instance \in {<<>>} \cup {<<row>> : row \in [count : 0..MaxCount]}}

RestoreObject ==
    /\ obj.kind = "RestoreArgs"
    /\ Call("RestoreArgs", "ConsolidatedAnswerDistributionSerializer", restore_object(obj.value))

Init ==
    /\ settings = [ELASTICSEARCH_LEARNERS_HOST |-> PyNone,
                   ELASTICSEARCH_CONNECTION_CLASS |-> PyNone,
                   ELASTICSEARCH_AWS_ACCESS_KEY_ID |-> PyNone,
                   ELASTICSEARCH_AWS_SECRET_ACCESS_KEY |-> PyNone,
                   ELASTICSEARCH_CONNECTION_DEFAULT_REGION |-> PyNone]
    /\ connections = <<>>
    /\ created = 0
    /\ ready_calls = 0
    /\ raised = "none"
    /\ obj \in ActivityInputs \cup ModeInputs \cup EngagementDayInputs
                 \cup LearnerInputs \cup ProblemInputs \cup GenderInputs
                 \cup RangeInputs \cup PageInputs \cup RestoreInputs
    /\ data = [serializer |-> "none"]
    /\ calls = 0

Next ==
    \/ SerializeActivity
    \/ SerializeModes
    \/ SerializeEngagementDay
    \/ SerializeLearner
    \/ SerializeProblem
    \/ SerializeGender
    \/ SerializeLearnerMetadata
    \/ PaginateSearch
    \/ RestoreObject

Spec == Init /\ [][Next]_vars

----------------------------------------------------------------------------
(* Claims about the record serializers (checked under Spec) *)

\* the documented default substitution: 0 for an absent or null source value
Defaulted(o, f) == IF f \in DOMAIN o /\ o[f] # Null THEN o[f] ELSE 0

\* C7: every numeric field declared with a default (the problem counts, the
\* gender counts, the per-day engagement counts, the learner engagement
\* counters) is output as 0 when its source is null or absent and as the
\* source value otherwise; null is never output for such a field.
C7_DefaultNeverNull ==
    /\ data.serializer = "ProblemSerializer" =>
          \A f \in ProblemFields :
              data.fields[f] = Defaulted(obj.value, f) /\ data.fields[f] # Null
    /\ data.serializer = "CourseEnrollmentByGenderSerializer" =>
          \A f \in GenderFields :
              data.fields[f] = Defaulted(obj.value, f) /\ data.fields[f] # Null
    /\ data.serializer = "EngagementDaySerializer" =>
          \A f \in EngagementDayFields :
              data.fields[f] = Defaulted(obj.value, f) /\ data.fields[f] # Null
    /\ data.serializer = "LearnerSerializer" =>
          \A i \in 1..Len(default_if_none_fields) :
              LET f == default_if_none_fields[i]
              IN  /\ data.fields.engagements[f] = Defaulted(obj.value, f)
                  /\ data.fields.engagements[f] # Null

\* C8: the enrollment-by-mode output holds every recognized mode; a mode
\* absent from the input is output as 0, a mode present is output with its
\* input value.
C8_EveryModePresent ==
    data.serializer = "CourseEnrollmentModeDailySerializer" =>
        \A mode \in {"audit", "credit", "honor", "professional", "verified"} :
            /\ mode \in DOMAIN data.fields
            /\ data.fields[mode] = IF mode \in DOMAIN obj.value THEN obj.value[mode] ELSE 0

\* C8 witness: a serialized row with credit absent and honor present
C8_Witness ==
    /\ data.serializer = "CourseEnrollmentModeDailySerializer"
    /\ "credit" \notin DOMAIN obj.value
    /\ "honor" \in DOMAIN obj.value
    /\ obj.value["honor"] = 1
    /\ data.fields["credit"] = 0
    /\ data.fields["honor"] = 1

\* C9: the output activity_type is "any" when lowercase(X) = "active", and
\* lowercase(X) for every other X; it is never "active".
C9_ActiveBecomesAny ==
    data.serializer = "CourseActivityByWeekSerializer" =>
        LET X == obj.value.activity_type
            out == data.fields.activity_type
        IN  /\ lower(X) = StrActive => out = StrAny
            /\ lower(X) # StrActive => out = lower(X)
            /\ out # StrActive

\* C9 witness: a mixed-case spelling of "active" was serialized as "any"
C9_Witness ==
    /\ data.serializer = "CourseActivityByWeekSerializer"
    /\ obj.value.activity_type = <<"A", "c", "T", "i", "V", "E">>
    /\ data.fields.activity_type = StrAny

----------------------------------------------------------------------------
(* Claims about the engagement range shaper (checked under Spec) *)

\* the positions of the rows of a metric and range type
Matching(qs, metric, range_type) ==
    {i \in 1..Len(qs) : qs[i].metric = metric /\ qs[i].range_type = range_type}

BucketOf == [low |-> "below_average", normal |-> "average", high |-> "above_average"]

RemoveAt(qs, i) == SubSeq(qs, 1, i - 1) \o SubSeq(qs, i + 1, Len(qs))

C6_FirstRowWins ==
    data.serializer = "CourseLearnerMetadataSerializer" =>
        LET qs == obj.value.engagement_ranges
            out == data.fields.engagement_ranges
        IN  \A i \in 1..Len(qs) :
                LET matches == Matching(qs, qs[i].metric, qs[i].range_type)
                    first == CHOOSE j \in matches : \A k \in matches : j <= k
                IN  /\ out[qs[i].metric][BucketOf[qs[i].range_type]]
                          = <<qs[first].low_value, qs[first].high_value>>
                    /\ i # first =>
                          /\ get_engagement_ranges([engagement_ranges |-> RemoveAt(qs, i)]) = out
                          /\ \A r \in RangeRows :
                                (r.metric = qs[i].metric /\ r.range_type = qs[i].range_type)
                                    => get_engagement_ranges(
                                          [engagement_ranges |-> [qs EXCEPT ![i] = r]]) = out

\* C6 witness: two rows of one metric and range type with different bounds,
\* serialized from the first
C6_Witness ==
    /\ data.serializer = "CourseLearnerMetadataSerializer"
    /\ Len(obj.value.engagement_ranges) >= 2
    /\ LET qs == obj.value.engagement_ranges
       IN  /\ qs[1].metric = qs[2].metric
           /\ qs[1].range_type = "low"
           /\ qs[2].range_type = "low"
           /\ qs[1].low_value = 0
           /\ qs[2].low_value = 1
           /\ data.fields.engagement_ranges[qs[1].metric].below_average = <<0, 1>>

----------------------------------------------------------------------------
(* Claims about pagination and about the inputs (checked under Spec) *)

\* C1: the page's pending search is executed, and object_list replaced by the
\* result, strictly before the base adapter is initialised; the base adapter
\* never observes the lazy search object, and the count it reports is the
\* number of matching documents.
C1_ExecuteBeforePaginate ==
    data.serializer = "ElasticsearchDSLSearchSerializer" =>
        /\ data.trace = <<"execute", "base_init">>
        /\ data.observed = "Response"
        /\ obj.value.object_list.type = "Response"
        /\ data.fields.count = Len(obj.value.object_list.search.matching)

\* C1 witness: the second page of three matching documents, two per page
C1_Witness ==
    /\ data.serializer = "ElasticsearchDSLSearchSerializer"
    /\ obj.value.number = 2
    /\ obj.value.paginator.per_page = 2
    /\ data.fields.count = 3
    /\ data.fields.results = <<3>>

\* C10 (as claimed): no serialization, range-shaping or pagination call
\* changes the object the view passed in.
C10_NoInputChanged == [][obj.kind # "RestoreArgs" => obj' = obj]_vars

\* C10 (amended): the record serializers and the range shaper leave their
\* input unchanged and return the same output on every call; the search
\* pagination adapter replaces the page's object_list by the executed result
\* and changes nothing else of the page; restore_object removes
\* consolidated_variant from attrs and sets the attributes on the instance
\* it is given.
C10_InputsKeptExceptPageAndRestore ==
    [][/\ obj'.kind = obj.kind
       /\ obj.kind \notin {"Page", "RestoreArgs"} =>
             /\ obj' = obj
             /\ calls >= 1 => data' = data
       /\ obj.kind = "Page" =>
             /\ obj.value.object_list.type = "Search"
             /\ obj'.value = [obj.value EXCEPT !.object_list = execute(obj.value.object_list)]
       /\ obj.kind = "RestoreArgs" =>
             /\ DOMAIN obj'.value.attrs = DOMAIN obj.value.attrs \ {"consolidated_variant"}
             /\ \A k \in DOMAIN obj'.value.attrs : obj'.value.attrs[k] = obj.value.attrs[k]
             /\ Len(obj'.value.instance) = Len(obj.value.instance)
      ]_vars

\* C10 witness: a learner record serialized twice; the defaulted engagement
\* total is in the output and not on the record
C10_Witness ==
    /\ obj.kind = "Learner"
    /\ calls = 2
    /\ "videos_viewed" \notin DOMAIN obj.value
    /\ data.fields.engagements["videos_viewed"] = 0

----------------------------------------------------------------------------
(* Claims about the learner profile fields (checked under Spec) *)

\* a value Python treats as empty: None, the empty string, the empty list
IsEmptyValue(v) == v = PyNone \/ v = PyStr(<<>>) \/ v = PyList(<<>>)

====
